---- MODULE Spec2Model ----
(***************************************************************************)
(* Model of the two Number Line: Integers data scripts:                    *)
(*   get-nli-temperature-data.py  (a command-line run, suffix B / "data")  *)
(*   get-nli-map.py               (plot_map, run in the CDS Toolbox)       *)
(*                                                                         *)
(* Text whose format matters (year, month, time) is modelled as a sequence *)
(* of one-character strings, a Python list as a sequence, a dict as a      *)
(* record; other text is a TLA+ string.  The floats 2.0 of 'grid' are the  *)
(* integers 2.  The external services (cdsapi, cdstoolbox) are the         *)
(* environment: each call either returns a value or raises.                *)
(***************************************************************************)
EXTENDS Integers, Sequences, FiniteSets, TLC

\* ---------------------------------------------------------------- bounds
MaxInvocations == 2   \* invocations of plot_map in one behaviour
NumHandles == 2       \* distinct dataset handles retrieve can return
NumFigures == 2       \* distinct figures geomap can return

Handles == 1..NumHandles
Figures == 1..NumFigures
\* what an external client can raise (network error, invalid parameters,
\* quota limit)
Errors == {"network", "invalid_parameters", "quota"}

\* ------------------------------------------------------------- text helpers
DigitChars == <<"0", "1", "2", "3", "4", "5", "6", "7", "8", "9">>
IsDigit(c) == \E i \in 1..10 : DigitChars[i] = c
DigitVal(c) == (CHOOSE i \in 1..10 : DigitChars[i] = c) - 1
\* the two-character text of month number n
MonthStr(n) == <<DigitChars[(n \div 10) + 1], DigitChars[(n % 10) + 1]>>
\* the values the 'month' literal of get-nli-map.py is edited to
MonthChoices == {MonthStr(n) : n \in 1..12}

\* ------------------------------------------------------------------ state
VARIABLES
  month,          \* get-nli-map.py: the literal of the 'month' field (line 23)
  layout,         \* get-nli-map.py: module-level layout dict
  pcA,            \* plot_map: position ("idle" = not running)
  data,           \* plot_map local: handle returned by retrieve, 0 = unbound
  fig,            \* plot_map local: figure returned by geomap, 0 = unbound
  traceA,         \* events of plot_map, in order
  retrieveCallsA, \* arguments of each ct.catalogue.retrieve call
  geomapCalls,    \* arguments of each ct.cdsplot.geomap call
  results,        \* what each invocation of plot_map gave its caller
  pcB,            \* get-nli-temperature-data.py: position
  clients,        \* number of cdsapi.Client objects constructed
  callsB,         \* arguments of each c.retrieve call
  files,          \* names of the files written, in order
  exitB           \* exception the run ended with, "none" if none

varsA == <<month, layout, pcA, data, fig, traceA, retrieveCallsA, geomapCalls,
           results>>
varsB == <<pcB, clients, callsB, exitB>>
vars == <<month, layout, pcA, data, fig, traceA, retrieveCallsA, geomapCalls,
          results, pcB, clients, callsB, files, exitB>>

\* --------------------------------------------- literals of get-nli-map.py
Layout == [output_align |-> "bottom"]

\* faulty variant of DatasetA: the hourly dataset
DatasetAHourly == "reanalysis-era5-single-levels"

DatasetA == "reanalysis-era5-single-levels-monthly-means"

\* faulty variants of MapRequest: the 'time' key left out; the month advanced by the
\* number of invocations so far
MapRequestNoTime ==
  [product_type |-> "monthly_averaged_reanalysis",
   variable |-> "2m_temperature",
   year |-> <<"2", "0", "1", "8">>,
   month |-> month]

MapRequestNextMonth ==
  [product_type |-> "monthly_averaged_reanalysis",
   variable |-> "2m_temperature",
   year |-> <<"2", "0", "1", "8">>,
   month |-> MonthStr((Len(results) % 12) + 1),
   time |-> <<"0", "0", ":", "0", "0">>]

MapRequest ==
  [product_type |-> "monthly_averaged_reanalysis",
   variable |-> "2m_temperature",
   year |-> <<"2", "0", "1", "8">>,
   month |-> month,
   time |-> <<"0", "0", ":", "0", "0">>]

Title == "Near-surface air temperature"

vmin == -60
vmax == 50

\* faulty variant of PcolormeshKwargs: the lower bound follows the month
PcolormeshKwargsByMonth ==
  [vmin |-> IF month = <<"0", "7">> THEN -40 ELSE vmin, vmax |-> vmax,
   cmap |-> "RdYlBu_r"]

PcolormeshKwargs == [vmin |-> vmin, vmax |-> vmax, cmap |-> "RdYlBu_r"]

\* --------------------------------- literals of get-nli-temperature-data.py
DatasetB == "reanalysis-era5-single-levels-monthly-means"

\* faulty variants of DataRequest: the time '24:00'; '02' twice and '03' missing
DataRequestBadTime ==
  [product_type |-> "monthly_averaged_reanalysis",
   variable |-> "2m_temperature",
   grid |-> <<2, 2>>,
   year |-> <<"2", "0", "1", "8">>,
   month |-> << <<"0", "1">>, <<"0", "2">>, <<"0", "3">>, <<"0", "4">>,
                <<"0", "5">>, <<"0", "6">>, <<"0", "7">>, <<"0", "8">>,
                <<"0", "9">>, <<"1", "0">>, <<"1", "1">>, <<"1", "2">> >>,
   time |-> <<"2", "4", ":", "0", "0">>,
   format |-> "netcdf"]

DataRequestDuplicateMonth ==
  [product_type |-> "monthly_averaged_reanalysis",
   variable |-> "2m_temperature",
   grid |-> <<2, 2>>,
   year |-> <<"2", "0", "1", "8">>,
   month |-> << <<"0", "1">>, <<"0", "2">>, <<"0", "2">>, <<"0", "4">>,
                <<"0", "5">>, <<"0", "6">>, <<"0", "7">>, <<"0", "8">>,
                <<"0", "9">>, <<"1", "0">>, <<"1", "1">>, <<"1", "2">> >>,
   time |-> <<"0", "0", ":", "0", "0">>,
   format |-> "netcdf"]

DataRequest ==
  [product_type |-> "monthly_averaged_reanalysis",
   variable |-> "2m_temperature",
   grid |-> <<2, 2>>,
   year |-> <<"2", "0", "1", "8">>,
   month |-> << <<"0", "1">>, <<"0", "2">>, <<"0", "3">>, <<"0", "4">>,
                <<"0", "5">>, <<"0", "6">>, <<"0", "7">>, <<"0", "8">>,
                <<"0", "9">>, <<"1", "0">>, <<"1", "1">>, <<"1", "2">> >>,
   time |-> <<"0", "0", ":", "0", "0">>,
   format |-> "netcdf"]

\* faulty variant of Target: another file name
TargetOther == "temperature-data.grib"

Target == "temperature-data.nc"

\* ------------------------------------------------------------------- Init
Event(e, v, x) == [ev |-> e, val |-> v, exc |-> x]

Init ==
  /\ month \in MonthChoices
  /\ layout = Layout
  /\ pcA = "idle"
  /\ data = 0
  /\ fig = 0
  /\ traceA = <<>>
  /\ retrieveCallsA = <<>>
  /\ geomapCalls = <<>>
  /\ results = <<>>
  /\ pcB = "start"
  /\ clients = 0
  /\ callsB = <<>>
  /\ files = <<>>
  /\ exitB = "none"

\* ------------------------------------------------ plot_map (get-nli-map.py)
\* the toolbox runs the application: plot_map is entered with fresh locals
Invoke ==
  /\ pcA = "idle"
  /\ Len(results) < MaxInvocations
  /\ pcA' = "retrieve"
  /\ data' = 0
  /\ fig' = 0
  /\ traceA' = Append(traceA, Event("invoke", 0, "none"))
  /\ UNCHANGED <<month, layout, retrieveCallsA, geomapCalls, results>>
  /\ UNCHANGED <<pcB, clients, callsB, files, exitB>>

\* lines 17-26: the request dict is built and ct.catalogue.retrieve is called
RetrieveCall ==
  /\ pcA = "retrieve"
  /\ pcA' = "in_retrieve"
  /\ retrieveCallsA' = Append(retrieveCallsA,
                              [name |-> DatasetA, request |-> MapRequest])
  /\ traceA' = Append(traceA, Event("retrieve", 0, "none"))
  /\ UNCHANGED <<month, layout, data, fig, geomapCalls, results>>
  /\ UNCHANGED <<pcB, clients, callsB, files, exitB>>

\* faulty variant of RetrieveReturn: the retrieved data is also saved to a file
RetrieveReturnToFile(h) ==
  /\ pcA = "in_retrieve"
  /\ pcA' = "geomap"
  /\ data' = h
  /\ traceA' = Append(traceA, Event("retrieve_ret", h, "none"))
  /\ files' = Append(files, "map-data.nc")
  /\ UNCHANGED <<month, layout, fig, retrieveCallsA, geomapCalls, results>>
  /\ UNCHANGED <<pcB, clients, callsB, exitB>>

\* line 17: the call returns a handle, bound to data
RetrieveReturn(h) ==
  /\ pcA = "in_retrieve"
  /\ pcA' = "geomap"
  /\ data' = h
  /\ traceA' = Append(traceA, Event("retrieve_ret", h, "none"))
  /\ UNCHANGED <<month, layout, fig, retrieveCallsA, geomapCalls, results>>
  /\ UNCHANGED <<pcB, clients, callsB, files, exitB>>

\* what the caller gets when a call made by plot_map raises e: plot_map has
\* no try/except, so the exception leaves plot_map as it is
Propagate(e) == e

\* faulty variant of RetrieveRaise: the exception is caught and retrieve is retried
RetrieveRaiseRetry(e) ==
  /\ pcA = "in_retrieve"
  /\ pcA' = "retrieve"
  /\ traceA' = Append(traceA, Event("retrieve_raise", 0, e))
  /\ UNCHANGED <<month, layout, data, fig, retrieveCallsA, geomapCalls,
                 results>>
  /\ UNCHANGED <<pcB, clients, callsB, files, exitB>>

\* line 17: the call raises; the exception unwinds plot_map
RetrieveRaise(e) ==
  /\ pcA = "in_retrieve"
  /\ pcA' = "idle"
  /\ traceA' = Append(traceA, Event("retrieve_raise", 0, e))
  /\ results' = Append(results,
                       [kind |-> "exception", fig |-> 0, exc |-> Propagate(e)])
  /\ UNCHANGED <<month, layout, data, fig, retrieveCallsA, geomapCalls>>
  /\ UNCHANGED <<pcB, clients, callsB, files, exitB>>

\* lines 28-31: title is bound and ct.cdsplot.geomap is called with data
GeomapCall ==
  /\ pcA = "geomap"
  /\ pcA' = "in_geomap"
  /\ geomapCalls' = Append(geomapCalls,
                           [data |-> data, title |-> Title,
                            pcolormesh_kwargs |-> PcolormeshKwargs])
  /\ traceA' = Append(traceA, Event("geomap", data, "none"))
  /\ UNCHANGED <<month, layout, data, fig, retrieveCallsA, results>>
  /\ UNCHANGED <<pcB, clients, callsB, files, exitB>>

\* line 29: the call returns a figure, bound to fig
GeomapReturn(f) ==
  /\ pcA = "in_geomap"
  /\ pcA' = "return"
  /\ fig' = f
  /\ traceA' = Append(traceA, Event("geomap_ret", f, "none"))
  /\ UNCHANGED <<month, layout, data, retrieveCallsA, geomapCalls, results>>
  /\ UNCHANGED <<pcB, clients, callsB, files, exitB>>

\* line 29: the call raises; the exception unwinds plot_map
GeomapRaise(e) ==
  /\ pcA = "in_geomap"
  /\ pcA' = "idle"
  /\ traceA' = Append(traceA, Event("geomap_raise", 0, e))
  /\ results' = Append(results,
                       [kind |-> "exception", fig |-> 0, exc |-> Propagate(e)])
  /\ UNCHANGED <<month, layout, data, fig, retrieveCallsA, geomapCalls>>
  /\ UNCHANGED <<pcB, clients, callsB, files, exitB>>

\* faulty variant of Return: the return statement left out, the caller gets None
ReturnNone ==
  /\ pcA = "return"
  /\ pcA' = "idle"
  /\ traceA' = Append(traceA, Event("return", fig, "none"))
  /\ results' = Append(results,
                       [kind |-> "figure", fig |-> 0, exc |-> "none"])
  /\ UNCHANGED <<month, layout, data, fig, retrieveCallsA, geomapCalls>>
  /\ UNCHANGED <<pcB, clients, callsB, files, exitB>>

\* line 33: return fig
Return ==
  /\ pcA = "return"
  /\ pcA' = "idle"
  /\ traceA' = Append(traceA, Event("return", fig, "none"))
  /\ results' = Append(results,
                       [kind |-> "figure", fig |-> fig, exc |-> "none"])
  /\ UNCHANGED <<month, layout, data, fig, retrieveCallsA, geomapCalls>>
  /\ UNCHANGED <<pcB, clients, callsB, files, exitB>>

\* ------------------------------------------- get-nli-temperature-data.py
\* line 9: c = cdsapi.Client()
ClientOk ==
  /\ pcB = "start"
  /\ pcB' = "retrieve"
  /\ clients' = clients + 1
  /\ UNCHANGED <<callsB, files, exitB>>
  /\ UNCHANGED varsA

\* line 9: the constructor raises; the run ends with the exception
ClientRaise(e) ==
  /\ pcB = "start"
  /\ pcB' = "error"
  /\ exitB' = e
  /\ UNCHANGED <<clients, callsB, files>>
  /\ UNCHANGED varsA

\* lines 10-22: c.retrieve(name, request, target) is called
RetrieveCallB ==
  /\ pcB = "retrieve"
  /\ pcB' = "in_retrieve"
  /\ callsB' = Append(callsB, [name |-> DatasetB, request |-> DataRequest,
                               target |-> Target])
  /\ UNCHANGED <<clients, files, exitB>>
  /\ UNCHANGED varsA

\* the call returns: the client library has written the target file; the
\* script ends (line 22 is its last statement)
RetrieveReturnB ==
  /\ pcB = "in_retrieve"
  /\ pcB' = "done"
  /\ files' = Append(files, callsB[Len(callsB)].target)
  /\ UNCHANGED <<clients, callsB, exitB>>
  /\ UNCHANGED varsA

\* the call raises, before the download or during it (partial: the client
\* library had already opened the target file); the run ends with the
\* exception
RetrieveRaiseB(e, partial) ==
  /\ pcB = "in_retrieve"
  /\ pcB' = "error"
  /\ exitB' = e
  /\ files' = IF partial THEN Append(files, callsB[Len(callsB)].target)
                         ELSE files
  /\ UNCHANGED <<clients, callsB>>
  /\ UNCHANGED varsA

\* ------------------------------------------------------------------- Next
Next ==
  \/ Invoke
  \/ RetrieveCall
  \/ \E h \in Handles : RetrieveReturn(h)
  \/ \E e \in Errors : RetrieveRaise(e)
  \/ GeomapCall
  \/ \E f \in Figures : GeomapReturn(f)
  \/ \E e \in Errors : GeomapRaise(e)
  \/ Return
  \/ ClientOk
  \/ \E e \in Errors : ClientRaise(e)
  \/ RetrieveCallB
  \/ RetrieveReturnB
  \/ \E e \in Errors, partial \in BOOLEAN : RetrieveRaiseB(e, partial)

Spec == Init /\ [][Next]_vars

\* --------------------------------------------------- helpers of the claims
RaiseEvents == {"retrieve_raise", "geomap_raise"}
EndEvents == {"return", "retrieve_raise", "geomap_raise"}
IsEnd(e) == e.ev \in EndEvents
IsGeomap(e) == e.ev = "geomap"
IsInvoke(e) == e.ev = "invoke"
\* the events that ended an invocation, in order
Ends == SelectSeq(traceA, IsEnd)
\* index of the invoke event of the latest invocation (0: none yet)
LastInvoke ==
  IF \E i \in 1..Len(traceA) : traceA[i].ev = "invoke"
  THEN CHOOSE i \in 1..Len(traceA) :
         /\ traceA[i].ev = "invoke"
         /\ \A j \in (i + 1)..Len(traceA) : traceA[j].ev # "invoke"
  ELSE 0
\* number of events of the kinds evs in the latest invocation
CountSince(evs) ==
  Cardinality({i \in 1..Len(traceA) : i > LastInvoke /\ traceA[i].ev \in evs})

\* C1: a run of get-nli-temperature-data.py constructs at most one client
\* and issues at most one retrieve call, for the dataset
\* 'reanalysis-era5-single-levels-monthly-means' with target
\* "temperature-data.nc"; a run that ended successfully constructed exactly
\* one client, issued exactly one retrieve and left exactly one file, of that
\* name; no file of another name is ever written.
C1_SingleRetrieve ==
  /\ clients <= 1
  /\ Len(callsB) <= 1
  /\ \A i \in 1..Len(callsB) :
       /\ callsB[i].name = "reanalysis-era5-single-levels-monthly-means"
       /\ callsB[i].target = "temperature-data.nc"
       /\ clients = 1
  /\ \A i \in 1..Len(files) : files[i] = "temperature-data.nc"
  /\ Len(files) <= 1
  /\ pcB = "done" =>
       /\ clients = 1
       /\ Len(callsB) = 1
       /\ files = <<"temperature-data.nc">>

C1_Witness == pcB = "done" /\ Len(files) = 1 /\ Len(callsB) = 1

\* C2: in every invocation of plot_map the events are, in order: invoke,
\* retrieve (once), its return, geomap (once), its return, return; geomap is
\* called only after retrieve returned and with the value it returned, and
\* plot_map returns the figure geomap returned.
C2_PlotMapOrder ==
  /\ \A i \in 1..Len(traceA) :
       LET e == traceA[i]
           prev == IF i = 1 THEN Event("none", 0, "none") ELSE traceA[i - 1]
       IN /\ e.ev = "invoke" => (i = 1 \/ prev.ev \in EndEvents)
          /\ e.ev = "retrieve" => prev.ev = "invoke"
          /\ e.ev \in {"retrieve_ret", "retrieve_raise"} => prev.ev = "retrieve"
          /\ e.ev = "geomap" => prev.ev = "retrieve_ret" /\ e.val = prev.val
          /\ e.ev \in {"geomap_ret", "geomap_raise"} => prev.ev = "geomap"
          /\ e.ev = "return" => prev.ev = "geomap_ret" /\ e.val = prev.val
  /\ LET G == SelectSeq(traceA, IsGeomap)
     IN /\ Len(G) = Len(geomapCalls)
        /\ \A j \in 1..Len(G) : geomapCalls[j].data = G[j].val
  /\ Len(Ends) = Len(results)
  /\ \A k \in 1..Len(results) :
       /\ results[k].kind = "figure" <=> Ends[k].ev = "return"
       /\ results[k].kind = "figure" => results[k].fig = Ends[k].val

C2_Witness ==
  /\ Len(results) >= 1
  /\ results[Len(results)].kind = "figure"
  /\ results[Len(results)].fig = NumFigures
  /\ geomapCalls[Len(geomapCalls)].data = NumHandles

\* C3: a failure of the external client propagates unchanged, with no retry
\* and no recovery.  plot_map: a raise is the last event of its invocation
\* (no retrieve is re-issued, no geomap follows a failed retrieve), the
\* caller gets the very exception raised and no figure.
\* get-nli-temperature-data.py: at most one retrieve is issued, the run is
\* in the error state exactly when it holds an exception, and a run in the
\* error state does nothing more.
C3_StatePart ==
  /\ \A i \in 1..Len(traceA) :
       traceA[i].ev \in RaiseEvents =>
         (i = Len(traceA) \/ traceA[i + 1].ev = "invoke")
  /\ Len(Ends) = Len(results)
  /\ \A k \in 1..Len(results) :
       Ends[k].ev \in RaiseEvents =>
         /\ results[k].kind = "exception"
         /\ results[k].exc = Ends[k].exc
         /\ results[k].fig = 0
  /\ (Len(traceA) > 0 /\ traceA[Len(traceA)].ev \in RaiseEvents) => pcA = "idle"
  /\ Len(callsB) <= 1
  /\ pcB = "error" <=> exitB # "none"
  /\ exitB # "none" => exitB \in Errors
  /\ pcB = "error" => (Len(callsB) = 0 <=> clients = 0)

C3_ActionPart ==
  pcB = "error" => UNCHANGED <<pcB, clients, callsB, files, exitB>>

C3_FailurePropagates == []C3_StatePart /\ [][C3_ActionPart]_vars

C3_Witness ==
  /\ pcB = "error" /\ Len(callsB) = 1
  /\ Len(results) = 2
  /\ Ends[1].ev = "retrieve_raise" /\ results[1].exc = "quota"
  /\ Ends[2].ev = "geomap_raise" /\ results[2].exc = "network"

\* C4 (as stated): every retrieval request issued by either script carries
\* the full parameter set: product type, variable, grid resolution, year,
\* month(s), time and output format, next to a dataset identifier.
FullKeys == {"product_type", "variable", "grid", "year", "month", "time",
             "format"}
CoreKeys == {"product_type", "variable", "year", "month", "time"}

C4_Original ==
  /\ \A i \in 1..Len(retrieveCallsA) :
       /\ retrieveCallsA[i].name # ""
       /\ DOMAIN retrieveCallsA[i].request = FullKeys
  /\ \A i \in 1..Len(callsB) :
       /\ callsB[i].name # ""
       /\ DOMAIN callsB[i].request = FullKeys

\* C4 (amended): every retrieval request carries a dataset identifier and the
\* keys for product type, variable, year, month(s) and time; the request of
\* get-nli-temperature-data.py carries grid resolution and output format as
\* well, the request of plot_map carries neither.
C4_Amended ==
  /\ \A i \in 1..Len(retrieveCallsA) :
       /\ retrieveCallsA[i].name # ""
       /\ DOMAIN retrieveCallsA[i].request = CoreKeys
  /\ \A i \in 1..Len(callsB) :
       /\ callsB[i].name # ""
       /\ DOMAIN callsB[i].request = FullKeys

C4_Witness == Len(retrieveCallsA) >= 1 /\ Len(callsB) >= 1

\* C5 (as stated): each script performs at most one outbound call to an
\* external service per run or invocation; only get-nli-temperature-data.py
\* causes a file write, exactly one; plot_map causes none.
FilesOnlyFromDataScript ==
  /\ Len(files) <= 1
  /\ Len(files) > 0 => (pcB \in {"done", "error"} /\ Len(callsB) = 1)
  /\ pcB = "done" => Len(files) = 1

C5_Original ==
  /\ CountSince({"retrieve", "geomap"}) <= 1
  /\ Len(callsB) <= 1
  /\ FilesOnlyFromDataScript

\* C5 (amended): each script performs at most one retrieval call per run or
\* invocation; plot_map makes in addition at most one call to the hosted
\* plotting API (geomap), so up to two outbound calls per invocation; only
\* get-nli-temperature-data.py causes a file write (exactly one when its
\* retrieve succeeds, done by the client library); plot_map causes none.
C5_Amended ==
  /\ CountSince({"retrieve"}) <= 1
  /\ CountSince({"geomap"}) <= 1
  /\ Len(callsB) <= 1
  /\ FilesOnlyFromDataScript

C5_Witness ==
  /\ CountSince({"retrieve", "geomap"}) = 2
  /\ Len(results) = 1
  /\ pcB = "start"
  /\ files = <<>>

\* C6: the request dicts of both scripts are well-formed: every key is an
\* API key name, 'year' is four digits, every 'month' value is two digits
\* naming 01..12, 'time' is HH:MM with HH in 00..23 and MM in 00..59, and
\* 'grid', where present, is a list of exactly two positive numbers.
ApiKeys == {"product_type", "variable", "grid", "year", "month", "time",
            "format"}
TwoDigits(t) == Len(t) = 2 /\ IsDigit(t[1]) /\ IsDigit(t[2])
TwoDigitVal(t) == 10 * DigitVal(t[1]) + DigitVal(t[2])
WellFormedYear(y) == Len(y) = 4 /\ \A i \in 1..4 : IsDigit(y[i])
WellFormedMonth(m) == TwoDigits(m) /\ TwoDigitVal(m) \in 1..12
WellFormedTime(t) ==
  /\ Len(t) = 5
  /\ t[3] = ":"
  /\ TwoDigits(<<t[1], t[2]>>) /\ TwoDigitVal(<<t[1], t[2]>>) \in 0..23
  /\ TwoDigits(<<t[4], t[5]>>) /\ TwoDigitVal(<<t[4], t[5]>>) \in 0..59
WellFormedGrid(g) == Len(g) = 2 /\ g[1] > 0 /\ g[2] > 0
WellFormedCommon(r) ==
  /\ DOMAIN r \subseteq ApiKeys
  /\ WellFormedYear(r.year)
  /\ WellFormedTime(r.time)
  /\ "grid" \in DOMAIN r => WellFormedGrid(r["grid"])

C6_WellFormedRequests ==
  /\ \A i \in 1..Len(retrieveCallsA) :
       /\ WellFormedCommon(retrieveCallsA[i].request)
       /\ WellFormedMonth(retrieveCallsA[i].request.month)
  /\ \A i \in 1..Len(callsB) :
       /\ WellFormedCommon(callsB[i].request)
       /\ \A j \in 1..Len(callsB[i].request.month) :
            WellFormedMonth(callsB[i].request.month[j])

C6_Witness ==
  /\ Len(callsB) = 1
  /\ Len(retrieveCallsA) >= 1
  /\ retrieveCallsA[1].request.month = <<"1", "2">>

\* C7: plot_map keeps no state between invocations: each invocation passes
\* its request to the client once, any two invocations send the same dataset
\* identifier, request and rendering parameters, and the module-level layout
\* is never changed.
C7_NoStateBetweenInvocations ==
  /\ \A i, j \in 1..Len(retrieveCallsA) : retrieveCallsA[i] = retrieveCallsA[j]
  /\ \A i, j \in 1..Len(geomapCalls) :
       /\ geomapCalls[i].title = geomapCalls[j].title
       /\ geomapCalls[i].pcolormesh_kwargs = geomapCalls[j].pcolormesh_kwargs
  /\ Len(retrieveCallsA) = Len(SelectSeq(traceA, IsInvoke))
       - (IF pcA = "retrieve" THEN 1 ELSE 0)
  /\ layout = [output_align |-> "bottom"]

C7_Witness ==
  /\ Len(retrieveCallsA) = 2
  /\ Len(geomapCalls) = 2
  /\ Len(results) = 2

\* C8: the 'month' list sent by get-nli-temperature-data.py holds the twelve
\* months '01'..'12', each once, in ascending order, for the year '2018'.
C8_TwelveMonths ==
  \A i \in 1..Len(callsB) :
    LET r == callsB[i].request
    IN /\ Len(r.month) = 12
       /\ \A n \in 1..12 : TwoDigits(r.month[n]) /\ TwoDigitVal(r.month[n]) = n
       /\ r.year = <<"2", "0", "1", "8">>

C8_Witness == Len(callsB) = 1 /\ pcB = "in_retrieve"

\* C9: the two scripts query the same data: the same dataset identifier,
\* equal values for the keys the two requests share besides 'month' (these
\* are product_type, variable, year, time), and the 'month' of plot_map's
\* request is one of the months of the other request.
C9_SameData ==
  \A i \in 1..Len(retrieveCallsA), j \in 1..Len(callsB) :
    LET a == retrieveCallsA[i]
        b == callsB[j]
        shared == (DOMAIN a.request \cap DOMAIN b.request) \ {"month"}
    IN /\ a.name = b.name
       /\ shared = {"product_type", "variable", "year", "time"}
       /\ \A k \in shared : a.request[k] = b.request[k]
       /\ \E n \in 1..Len(b.request.month) : b.request.month[n] = a.request.month

C9_Witness ==
  /\ Len(retrieveCallsA) >= 1
  /\ Len(callsB) = 1
  /\ retrieveCallsA[1].request.month = <<"0", "9">>

\* C10: the rendering parameters passed to geomap do not depend on the
\* 'month' of the request: whatever month is edited in, geomap gets the same
\* title, the colour map 'RdYlBu_r' and the bounds vmin = -60 < vmax = 50.
C10_RenderingIndependentOfMonth ==
  \A i \in 1..Len(geomapCalls) :
    LET k == geomapCalls[i].pcolormesh_kwargs
    IN /\ geomapCalls[i].title = "Near-surface air temperature"
       /\ DOMAIN k = {"vmin", "vmax", "cmap"}
       /\ k.cmap = "RdYlBu_r"
       /\ k.vmin = -60
       /\ k.vmax = 50
       /\ k.vmin < k.vmax

C10_Witness ==
  /\ Len(geomapCalls) >= 1
  /\ retrieveCallsA[1].request.month = <<"0", "7">>

====
